---- MODULE Spec2Model ----
(***************************************************************************)
(* HealthDatabase (src/etl/healthdatabase.py): a context manager around an *)
(* apsw connection/cursor pair on one database file, with table creation,  *)
(* splitting of a table by the distinct values of a column, bulk insert    *)
(* and catalog introspection.                                              *)
(*                                                                         *)
(* Strings that the code takes apart (grouping values, prefixes, table     *)
(* names) are sequences of one-letter strings, so that str.removeprefix is *)
(* computed: <<"h","r">> plays "HKWorkoutActivityTypeRunning" with the      *)
(* prefix <<"h">> playing "HKWorkoutActivityType".                         *)
(*                                                                         *)
(* The database is a file on disk: its tables outlive a connection.  The   *)
(* engine runs every statement in autocommit mode (the code opens no       *)
(* transaction), so each statement that succeeds is kept.                  *)
(***************************************************************************)
EXTENDS Integers, Sequences, FiniteSets, TLC

\* ------------------------------------------------------------------ bounds

\* Nesting depth of with-blocks on the one HealthDatabase object.
MaxDepth == 2
\* Rows the whole database may hold before populate_table is no longer called.
MaxRows == 2
\* Connection objects alive at once (each with its one cursor).
MaxConns == 3

\* ------------------------------------------------------------------ inputs

\* Values of the grouping column.
Vals == { <<"h", "r">>, <<"r">>, <<"h", "h">> }

\* Prefix lists handed to create_tables_from_column (default: the empty list).
PrefixLists ==
    { <<>>,
      << <<"h">> >>,
      << <<"h">>, <<"h", "r">> >>,
      << <<"h", "r">>, <<"h">> >>,
      << <<>>, <<"h">> >> }

\* Table names handed to create_table and used as source/target names.
TableNames == { <<"t">>, <<"r">> }

\* Column lists handed to create_table; <<>> is a malformed (empty) one.
ColSpecs == { <<"k">> }

\* Entry lists handed to populate_table: rows of one value, and in the last
\* three a row of two values (last, alone, or with an entry after it).
EntryLists ==
    { <<>>,
      << << <<"h", "r">> >> >>,
      << << <<"r">> >> >>,
      << << <<"h", "h">> >> >>,
      << << <<"h", "r">> >>, << <<"r">> >> >>,
      << << <<"h", "r">> >>, << <<"h", "h">> >> >>,
      << << <<"r">>, <<"r">> >> >>,
      << << <<"h", "r">> >>, << <<"r">>, <<"r">> >> >>,
      << << <<"r">>, <<"r">> >>, << <<"h", "r">> >> >> }

Perms(S) ==
    { s \in [1..Cardinality(S) -> S] : \A x \in S : \E i \in DOMAIN s : s[i] = x }

Range(s) == { s[i] : i \in DOMAIN s }

Min(S) == CHOOSE x \in S : \A y \in S : x <= y

\* --------------------------------------------------------------- variables

\* A connection object and the cursor made from it carry the same identity;
\* 0 stands for None.
Ids == 1..MaxConns

VARIABLES
    conn,        \* self.conn: 0 or the identity of a connection
    cursor,      \* self.cursor: 0 or the identity of a cursor
    openConns,   \* the connections that are open
    openCurs,    \* the cursors that are open
    heldConns,   \* open connections the caller got from get_connection()
    heldCurs,    \* open cursors the caller got from get_cursor()
    scopes,      \* the with-blocks entered and not left: per block, the
                 \* connection its __enter__ opened (innermost last)
    exc,         \* the exception unwinding the with-blocks, or "none"
    tables,      \* the schema catalog: records [name, cols, rows] in rowid order
    hist,        \* per table (history): the call that made it, its rows then,
                 \* the rows handed to the populate_table calls that
                 \* succeeded, the rows left by the calls that failed
    last         \* the most recent call and what it gave the caller

vars == << conn, cursor, openConns, openCurs, heldConns, heldCurs, scopes,
           exc, tables, hist, last >>

sessionVars == << conn, cursor, openConns, openCurs, heldConns, heldCurs, scopes >>

depth == Len(scopes)

\* A call record with nothing filled in.
NoCall ==
    [ op |-> "none", raised |-> "none", ret |-> <<>>, count |-> -1,
      name |-> <<>>, col |-> "", prefixes |-> <<>>,
      vals |-> <<>>, tags |-> <<>>, made |-> <<>>,
      excIn |-> "none", out |-> "none", cursorWas |-> "None", diag |-> FALSE,
      closes |-> <<>>, suppressed |-> FALSE ]

\* ----------------------------------------------------------------- session

\* __init__
Init ==
    /\ conn = 0
    /\ cursor = 0
    /\ openConns = {}
    /\ openCurs = {}
    /\ heldConns = {}
    /\ heldCurs = {}
    /\ scopes = <<>>
    /\ exc = "none"
    /\ tables = <<>>
    /\ hist = [n \in {} |-> 0]
    /\ last = NoCall

\* An exception raised by a call made inside a with-block unwinds the blocks;
\* raised outside any block it reaches the caller at once.
Throw(kind) == exc' = IF depth > 0 THEN kind ELSE "none"

ConnState == IF conn = 0 THEN "None" ELSE IF conn \in openConns THEN "open" ELSE "closed"

CursorState ==
    IF cursor = 0 THEN "None" ELSE IF cursor \in openCurs THEN "open" ELSE "closed"

\* A statement on self.cursor: None has no execute attribute, a closed cursor
\* refuses, an open one runs the statement.
CursorError ==
    CASE CursorState = "None" -> "AttributeError"
      [] CursorState = "closed" -> "CursorClosedError"
      [] OTHER -> "none"

\* __enter__ with the file openable: self.conn and self.cursor are rebound to
\* a new connection and its cursor.  The objects they replace are not closed
\* by the method: an open one that the caller still references stays open (a
\* cursor keeps its connection alive), an unreferenced one is reclaimed and
\* so closed.
EnterOpen ==
    LET liveCurs == IF cursor \in heldCurs THEN openCurs ELSE openCurs \ { cursor }
        liveConns == IF conn \in heldConns \/ conn \in liveCurs
                     THEN openConns ELSE openConns \ { conn }
        free == Ids \ (liveConns \cup liveCurs \cup Range(scopes))
    IN  /\ free # {}
        /\ conn' = Min(free)
        /\ cursor' = Min(free)
        /\ openConns' = liveConns \cup { Min(free) }
        /\ openCurs' = liveCurs \cup { Min(free) }
        /\ heldConns' = heldConns \cap liveConns
        /\ heldCurs' = heldCurs \cap liveCurs
        /\ scopes' = Append(scopes, Min(free))
        /\ exc' = "none"
        /\ last' = [NoCall EXCEPT !.op = "__enter__"]

\* __enter__ with the file not openable: apsw.Connection raises before
\* self.conn is assigned, and the with-block is not entered.
EnterFail ==
    /\ UNCHANGED sessionVars
    /\ Throw("CantOpenError")
    /\ last' = [NoCall EXCEPT !.op = "__enter__", !.raised = "CantOpenError"]

Enter(canOpen) ==
    /\ exc = "none"
    /\ depth < MaxDepth
    /\ IF canOpen THEN EnterOpen ELSE EnterFail
    /\ UNCHANGED << tables, hist >>

\* Faulty variants of ExitResult: the AttributeError not caught; True
\* returned on every path.
ExitResultNoCatch(cur, con) ==
    IF cur = "None" \/ con = "None"
    THEN [ cursor |-> IF cur = "None" THEN cur ELSE "closed", conn |-> con,
           closes |-> IF cur = "None" THEN <<>> ELSE << "cursor" >>,
           diag |-> FALSE, suppressed |-> FALSE, raised |-> "AttributeError" ]
    ELSE [ cursor |-> "closed", conn |-> "closed",
           closes |-> << "cursor", "conn" >>,
           diag |-> FALSE, suppressed |-> FALSE, raised |-> "none" ]

ExitResultAlwaysTrue(cur, con) ==
    IF cur = "None" \/ con = "None"
    THEN [ cursor |-> IF cur = "None" THEN cur ELSE "closed", conn |-> con,
           closes |-> IF cur = "None" THEN <<>> ELSE << "cursor" >>,
           diag |-> TRUE, suppressed |-> TRUE, raised |-> "none" ]
    ELSE [ cursor |-> "closed", conn |-> "closed",
           closes |-> << "cursor", "conn" >>,
           diag |-> FALSE, suppressed |-> TRUE, raised |-> "none" ]

\* The body of __exit__ on a cursor and a connection in the given states:
\* cursor.close() then conn.close(); closing a closed apsw cursor or
\* connection does nothing.  None has no close attribute: the AttributeError
\* is caught, "Not closeable." is printed and True is returned, which tells
\* the with statement to suppress the exception it was unwinding.  On the
\* other path the method falls off its end and returns None.
ExitResult(cur, con) ==
    IF cur = "None"
    THEN [ cursor |-> cur, conn |-> con, closes |-> <<>>,
           diag |-> TRUE, suppressed |-> TRUE, raised |-> "none" ]
    ELSE IF con = "None"
    THEN [ cursor |-> "closed", conn |-> con, closes |-> << "cursor" >>,
           diag |-> TRUE, suppressed |-> TRUE, raised |-> "none" ]
    ELSE [ cursor |-> "closed", conn |-> "closed",
           closes |-> << "cursor", "conn" >>,
           diag |-> FALSE, suppressed |-> FALSE, raised |-> "none" ]

\* What leaves a call of __exit__ that was handed the exception excIn.
Leaving(r, excIn) ==
    IF r.raised # "none" THEN r.raised
    ELSE IF r.suppressed THEN "none"
    ELSE excIn

\* __exit__(exception_type, exception_val, traceback)
ExitCall(excIn) ==
    LET r == ExitResult(CursorState, ConnState)
        curs == IF r.cursor = "closed" THEN openCurs \ { cursor } ELSE openCurs
        conns == IF r.conn = "closed" THEN openConns \ { conn } ELSE openConns
    IN  /\ openCurs' = curs
        /\ openConns' = conns
        /\ heldCurs' = heldCurs \cap curs
        /\ heldConns' = heldConns \cap conns
        /\ last' = [NoCall EXCEPT !.op = "__exit__", !.raised = r.raised,
                                  !.excIn = excIn, !.out = Leaving(r, excIn),
                                  !.cursorWas = CursorState,
                                  !.diag = r.diag, !.closes = r.closes,
                                  !.suppressed = r.suppressed]
        /\ UNCHANGED << conn, cursor, tables, hist >>

\* Leaving a with-block, normally or with an exception unwinding it: the with
\* statement calls __exit__ and re-raises unless it returned a true value.
ScopeExit ==
    /\ depth > 0
    /\ ExitCall(exc)
    /\ scopes' = SubSeq(scopes, 1, depth - 1)
    /\ exc' = IF depth > 1
              THEN Leaving(ExitResult(CursorState, ConnState), exc)
              ELSE "none"

\* The caller closing the session itself: __exit__(None, None, None).
CloseCall ==
    /\ exc = "none"
    /\ ExitCall("none")
    /\ UNCHANGED scopes
    /\ Throw(ExitResult(CursorState, ConnState).raised)

\* get_cursor() and get_connection(): the caller keeps what they return.
GetCursor ==
    /\ exc = "none"
    /\ cursor \in openCurs \ heldCurs
    /\ heldCurs' = heldCurs \cup { cursor }
    /\ UNCHANGED << conn, cursor, openConns, openCurs, heldConns, scopes,
                    exc, tables, hist, last >>

GetConnection ==
    /\ exc = "none"
    /\ conn \in openConns \ heldConns
    /\ heldConns' = heldConns \cup { conn }
    /\ UNCHANGED << conn, cursor, openConns, openCurs, heldCurs, scopes,
                    exc, tables, hist, last >>

\* ---------------------------------------------------------------- database

NamesOf(tabs) == { tabs[i].name : i \in DOMAIN tabs }

HasTable(tabs, n) == \E i \in DOMAIN tabs : tabs[i].name = n

TableAt(tabs, n) == tabs[CHOOSE i \in DOMAIN tabs : tabs[i].name = n]

HasColumn(cols, c) == \E i \in DOMAIN cols : cols[i] = c

ColIndex(cols, c) == CHOOSE i \in DOMAIN cols : cols[i] = c

\* An identifier the engine accepts unquoted; over this alphabet only the
\* empty string is none.
ValidIdent(s) == Len(s) > 0

RECURSIVE TotalRows(_)
TotalRows(tabs) ==
    IF tabs = <<>> THEN 0 ELSE Len(Head(tabs).rows) + TotalRows(Tail(tabs))

\* The history of the tables of tabs, those new in it (made by the call via)
\* starting theirs.
NewHist(tabs, via) ==
    [ n \in NamesOf(tabs) |->
        IF n \in DOMAIN hist THEN hist[n]
        ELSE [ via |-> via, born |-> Len(TableAt(tabs, n).rows),
               ok |-> 0, partial |-> 0 ] ]

\* The statement without the check for a table of that name.
SqlCreateTableNoCheck(tabs, name, cols) ==
    IF ~ValidIdent(name) \/ cols = <<>>
    THEN [ tables |-> tabs, error |-> "SQLError" ]
    ELSE [ tables |-> Append(tabs, [name |-> name, cols |-> cols, rows |-> <<>>]),
           error |-> "none" ]

\* CREATE TABLE name(cols)
SqlCreateTable(tabs, name, cols) ==
    IF ~ValidIdent(name) \/ cols = <<>> \/ HasTable(tabs, name)
    THEN [ tables |-> tabs, error |-> "SQLError" ]
    ELSE [ tables |-> Append(tabs, [name |-> name, cols |-> cols, rows |-> <<>>]),
           error |-> "none" ]

\* create_table(table_name, col_names)
CreateTable(table_name, col_names) ==
    /\ exc = "none"
    /\ LET r == SqlCreateTable(tables, table_name, col_names)
           raised == IF CursorError # "none" THEN CursorError ELSE r.error
           tabs == IF raised = "none" THEN r.tables ELSE tables
       IN  /\ tables' = tabs
           /\ hist' = NewHist(tabs, "create_table")
           /\ Throw(raised)
           /\ last' = [NoCall EXCEPT
                         !.op = "create_table", !.raised = raised,
                         !.name = IF raised = "none" THEN table_name ELSE <<>>]
    /\ UNCHANGED sessionVars

\* str.removeprefix
RemovePrefix(s, p) ==
    IF Len(p) <= Len(s) /\ SubSeq(s, 1, Len(p)) = p
    THEN SubSeq(s, Len(p) + 1, Len(s))
    ELSE s

\* The loop over the prefixes without its break.
NewTableTagNoBreak(i, prefixes) ==
    IF Len(prefixes) > 0 THEN RemovePrefix(i, prefixes[Len(prefixes)]) ELSE i

\* for p in prefixes: new_table_tag = i.removeprefix(p); stop once it differs
RECURSIVE PrefixLoop(_, _, _, _)
PrefixLoop(i, prefixes, k, tag) ==
    IF k > Len(prefixes) THEN tag
    ELSE LET t == RemovePrefix(i, prefixes[k])
         IN  IF t # i THEN t ELSE PrefixLoop(i, prefixes, k + 1, t)

\* The name of the table derived from the value i.
NewTableTag(i, prefixes) ==
    IF Len(prefixes) > 0 THEN PrefixLoop(i, prefixes, 1, i) ELSE i

\* SELECT DISTINCT col FROM table: the values, in an order of the engine's.
DistinctVals(rows, ci) == { rows[j][ci] : j \in DOMAIN rows }

\* SELECT * FROM source WHERE col = 'val'
SelectWhere(rows, ci, val) ==
    LET Match(row) == row[ci] = val IN SelectSeq(rows, Match)

\* The statement selecting on the derived name instead of the value.
SqlCreateTableAsByTag(tabs, new, src, ci, val) ==
    IF ~ValidIdent(new) \/ HasTable(tabs, new)
    THEN [ tables |-> tabs, error |-> "SQLError" ]
    ELSE [ tables |-> Append(tabs, [ name |-> new, cols |-> TableAt(tabs, src).cols,
                                     rows |-> SelectWhere(TableAt(tabs, src).rows, ci, new) ]),
           error |-> "none" ]

\* The statement replacing a table of the same name.
SqlCreateTableAsReplace(tabs, new, src, ci, val) ==
    LET made == [ name |-> new, cols |-> TableAt(tabs, src).cols,
                  rows |-> SelectWhere(TableAt(tabs, src).rows, ci, val) ]
    IN  IF ~ValidIdent(new)
        THEN [ tables |-> tabs, error |-> "SQLError" ]
        ELSE IF HasTable(tabs, new)
        THEN [ tables |-> [ j \in DOMAIN tabs |->
                              IF tabs[j].name = new THEN made ELSE tabs[j] ],
               error |-> "none" ]
        ELSE [ tables |-> Append(tabs, made), error |-> "none" ]

\* CREATE TABLE new AS SELECT * FROM src WHERE col = 'val'
SqlCreateTableAs(tabs, new, src, ci, val) ==
    IF ~ValidIdent(new) \/ HasTable(tabs, new)
    THEN [ tables |-> tabs, error |-> "SQLError" ]
    ELSE [ tables |-> Append(tabs, [ name |-> new, cols |-> TableAt(tabs, src).cols,
                                     rows |-> SelectWhere(TableAt(tabs, src).rows, ci, val) ]),
           error |-> "none" ]

\* The loop over the distinct values: one derived table per value, the
\* first statement that fails ending the call.
RECURSIVE DeriveLoop(_, _, _, _, _, _, _, _)
DeriveLoop(tabs, src, ci, prefixes, vals, k, tags, made) ==
    IF k > Len(vals)
    THEN [ tables |-> tabs, tags |-> tags, made |-> made, error |-> "none" ]
    ELSE LET tag == NewTableTag(vals[k], prefixes)
             r == SqlCreateTableAs(tabs, tag, src, ci, vals[k])
         IN  IF r.error # "none"
             THEN [ tables |-> tabs, tags |-> Append(tags, tag), made |-> made,
                    error |-> r.error ]
             ELSE DeriveLoop(r.tables, src, ci, prefixes, vals, k + 1,
                             Append(tags, tag), Append(made, tag))

\* The call undoing its tables when a statement fails.
DeriveAtomic(tabs, src, ci, prefixes, vals) ==
    LET r == DeriveLoop(tabs, src, ci, prefixes, vals, 1, <<>>, <<>>)
    IN  IF r.error = "none" THEN r ELSE [r EXCEPT !.tables = tabs]

\* The body of create_tables_from_column once the distinct values are read.
Derive(tabs, src, ci, prefixes, vals) ==
    DeriveLoop(tabs, src, ci, prefixes, vals, 1, <<>>, <<>>)

\* create_tables_from_column(table_name, col_name, prefixes); the call
\* record keeps the arguments once the distinct values have been read.
CreateTablesFromColumn(table_name, col_name, prefixes) ==
    /\ exc = "none"
    /\ LET call == [NoCall EXCEPT !.op = "create_tables_from_column"]
       IN  IF CursorError # "none"
           THEN /\ Throw(CursorError)
                /\ last' = [call EXCEPT !.raised = CursorError]
                /\ UNCHANGED << tables, hist >>
           ELSE IF ~HasTable(tables, table_name)
                   \/ ~HasColumn(TableAt(tables, table_name).cols, col_name)
           THEN /\ Throw("SQLError")
                /\ last' = [call EXCEPT !.raised = "SQLError"]
                /\ UNCHANGED << tables, hist >>
           ELSE LET src == TableAt(tables, table_name)
                    ci == ColIndex(src.cols, col_name)
                IN  \E vals \in Perms(DistinctVals(src.rows, ci)) :
                       LET r == Derive(tables, table_name, ci, prefixes, vals)
                       IN  /\ tables' = r.tables
                           /\ hist' = NewHist(r.tables, "create_tables_from_column")
                           /\ Throw(r.error)
                           /\ last' = [call EXCEPT
                                         !.name = table_name, !.col = col_name,
                                         !.prefixes = prefixes,
                                         !.raised = r.error, !.vals = vals,
                                         !.tags = r.tags, !.made = r.made,
                                         !.ret = IF r.error = "none"
                                                 THEN r.made ELSE <<>>]
    /\ UNCHANGED sessionVars

\* Only the first entry executed (execute in place of executemany).
InsertManyFirstOnly(rows, entries, n, k) ==
    IF entries = <<>> THEN [ rows |-> rows, done |-> 0, error |-> "none" ]
    ELSE IF Len(entries[1]) # n
    THEN [ rows |-> rows, done |-> 0, error |-> "BindingsError" ]
    ELSE [ rows |-> Append(rows, entries[1]), done |-> Len(entries), error |-> "none" ]

\* executemany from the k-th entry on: the statement runs once per entry, each
\* run kept; an entry whose length is not the number of placeholders ends
\* the call with the earlier entries inserted.
RECURSIVE InsertMany(_, _, _, _)
InsertMany(rows, entries, n, k) ==
    IF k > Len(entries) THEN [ rows |-> rows, done |-> k - 1, error |-> "none" ]
    ELSE IF Len(entries[k]) # n
    THEN [ rows |-> rows, done |-> k - 1, error |-> "BindingsError" ]
    ELSE InsertMany(Append(rows, entries[k]), entries, n, k + 1)

\* INSERT into table values(placeholders), for each entry.  With no entry no
\* statement is prepared; otherwise a missing table or a number of
\* placeholders that is not the table's number of columns fails the call
\* before any row.
SqlInsertMany(tabs, name, entries, n) ==
    IF entries = <<>>
    THEN [ tables |-> tabs, done |-> 0, error |-> "none" ]
    ELSE IF ~HasTable(tabs, name)
    THEN [ tables |-> tabs, done |-> 0, error |-> "SQLError" ]
    ELSE IF Len(TableAt(tabs, name).cols) # n
    THEN [ tables |-> tabs, done |-> 0, error |-> "SQLError" ]
    ELSE LET r == InsertMany(TableAt(tabs, name).rows, entries, n, 1)
         IN  [ tables |-> [ j \in DOMAIN tabs |->
                              IF tabs[j].name = name
                              THEN [tabs[j] EXCEPT !.rows = r.rows]
                              ELSE tabs[j] ],
               done |-> r.done, error |-> r.error ]

\* populate_table(table_name, entries, placeholder_vals)
PopulateTable(table_name, entries, placeholder_vals) ==
    /\ exc = "none"
    /\ TotalRows(tables) + Len(entries) <= MaxRows
    /\ LET r == SqlInsertMany(tables, table_name, entries, placeholder_vals)
           raised == IF CursorError # "none" THEN CursorError ELSE r.error
           tabs == IF CursorError # "none" THEN tables ELSE r.tables
           done == IF CursorError # "none" THEN 0 ELSE r.done
       IN  /\ tables' = tabs
           /\ hist' = [ n \in DOMAIN hist |->
                          IF n # table_name THEN hist[n]
                          ELSE IF raised = "none"
                          THEN [hist[n] EXCEPT !.ok = @ + Len(entries)]
                          ELSE [hist[n] EXCEPT !.partial = @ + done] ]
           /\ Throw(raised)
           /\ last' = [NoCall EXCEPT
                         !.op = "populate_table", !.raised = raised,
                         !.name = IF raised = "none" THEN table_name ELSE <<>>,
                         !.count = IF raised = "none" THEN Len(entries) ELSE -1]
    /\ UNCHANGED sessionVars

\* SELECT COUNT(*) FROM table
TableCount(tabs, name) == Len(TableAt(tabs, name).rows)

\* get_table_count(table_name)
GetTableCount(table_name) ==
    /\ exc = "none"
    /\ LET raised == IF CursorError # "none" THEN CursorError
                     ELSE IF ~HasTable(tables, table_name) THEN "SQLError"
                     ELSE "none"
       IN  /\ Throw(raised)
           /\ last' = [NoCall EXCEPT
                         !.op = "get_table_count", !.raised = raised,
                         !.name = IF raised = "none" THEN table_name ELSE <<>>,
                         !.count = IF raised = "none"
                                   THEN TableCount(tables, table_name) ELSE -1]
    /\ UNCHANGED << sessionVars, tables, hist >>

\* SELECT name FROM sqlite_schema WHERE type = 'table'
TableList(tabs) == [ j \in DOMAIN tabs |-> tabs[j].name ]

\* get_table_list()
GetTableList ==
    /\ exc = "none"
    /\ Throw(CursorError)
    /\ last' = [NoCall EXCEPT !.op = "get_table_list", !.raised = CursorError,
                              !.ret = IF CursorError = "none"
                                      THEN TableList(tables) ELSE <<>>]
    /\ UNCHANGED << sessionVars, tables, hist >>

\* ----------------------------------------------------------- specification

\* One row of two values, for the placeholder string "?,?".
TwoValueRow == << << <<"r">>, <<"r">> >> >>

\* The entry lists that still fit the database.
Batches == { e \in EntryLists : TotalRows(tables) + Len(e) <= MaxRows }

\* The ETL driver's use of the object: one with-block after another on the
\* same file, any sequence of the database operations in and around them.
Next ==
    \/ depth = 0 /\ Enter(TRUE)
    \/ ScopeExit
    \/ \E n \in TableNames, c \in ColSpecs \cup { <<>> } : CreateTable(n, c)
    \/ \E n \in TableNames, p \in PrefixLists : CreateTablesFromColumn(n, "k", p)
    \/ \E n \in TableNames : CreateTablesFromColumn(n, "x", <<>>)
    \/ \E n \in TableNames, e \in Batches : PopulateTable(n, e, 1)
    \/ \E n \in TableNames : PopulateTable(n, TwoValueRow, 2)
    \/ \E n \in TableNames : GetTableCount(n)
    \/ GetTableList

Spec == Init /\ [][Next]_vars

\* Any use of the object as a context manager (nested and repeated blocks,
\* a file that cannot be opened, explicit calls of __exit__, references
\* taken by get_cursor and get_connection) around a small workload.
SessionBatches ==
    { e \in Batches :
        \A j \in DOMAIN e : e[j] \in { << <<"h", "r">> >>, << <<"r">>, <<"r">> >> } }

NextSession ==
    \/ \E canOpen \in BOOLEAN : Enter(canOpen)
    \/ ScopeExit
    \/ CloseCall
    \/ GetCursor
    \/ GetConnection
    \/ CreateTable(<<"t">>, <<"k">>)
    \/ CreateTablesFromColumn(<<"t">>, "k", <<>>)
    \/ \E e \in SessionBatches : PopulateTable(<<"t">>, e, 1)
    \/ GetTableCount(<<"t">>)

SpecSession == Init /\ [][NextSession]_vars

\* ------------------------------------------------------------------ claims

Ctfc == "create_tables_from_column"

Occurrences(seq, x) == Cardinality({ i \in DOMAIN seq : seq[i] = x })

IsPrefixOf(p, v) == Len(p) <= Len(v) /\ \A i \in 1..Len(p) : v[i] = p[i]

\* The positions in the prefix list of the prefixes the value starts with and
\* whose removal changes it.
Matching(v, ps) == { j \in DOMAIN ps : ps[j] # <<>> /\ IsPrefixOf(ps[j], v) }

\* The value without the first prefix of the list that matches it.
ExpectedTag(v, ps) ==
    IF Matching(v, ps) = {} THEN v
    ELSE LET p == ps[Min(Matching(v, ps))]
         IN  [ i \in 1..(Len(v) - Len(p)) |-> v[i + Len(p)] ]

\* The source rows whose grouping column holds v.
RowsWith(rows, ci, v) == { i \in DOMAIN rows : rows[i][ci] = v }

\* C1: once create_table has succeeded for a name, get_table_list holds the
\* name exactly once, and no later call changes that.
C1_Step ==
    /\ (last'.op = "create_table" /\ last'.raised = "none")
          => Occurrences(TableList(tables'), last'.name) = 1
    /\ \A n \in NamesOf(tables) :
          Occurrences(TableList(tables), n) = 1
             => Occurrences(TableList(tables'), n) = 1

C1_CreatedTableListedOnce == [][C1_Step]_vars

W_C1_CreatedAmongOthers ==
    /\ last.op = "create_table"
    /\ last.raised = "none"
    /\ Len(tables) >= 2
    /\ Occurrences(TableList(tables), last.name) = 1

\* C2 as stated: for every table whose populate_table calls all succeeded,
\* the row count is the number of rows those calls inserted.
C2_CountIsRowsPopulated ==
    \A n \in NamesOf(tables) :
       hist[n].partial = 0 => TableCount(tables, n) = hist[n].ok

\* C2, amended: for every table whose populate_table calls all succeeded,
\* get_table_count is the number of rows the table was created with (none
\* by create_table, the matching source rows by create_tables_from_column)
\* plus the number of rows those calls inserted.
C2_CountIsCreatedPlusPopulated ==
    /\ \A n \in NamesOf(tables) :
          hist[n].partial = 0
             => /\ TableCount(tables, n) = hist[n].born + hist[n].ok
                /\ hist[n].via = "create_table" => hist[n].born = 0
    /\ (last.op = "get_table_count" /\ last.raised = "none")
          => last.count = TableCount(tables, last.name)

W_C2_SecondPopulate ==
    /\ last.op = "populate_table"
    /\ last.raised = "none"
    /\ last.count > 0
    /\ hist[last.name].via = "create_table"
    /\ hist[last.name].partial = 0
    /\ hist[last.name].ok > last.count

\* C3: a create_tables_from_column call that succeeds returns one derived
\* table per distinct value of the grouping column, new in the schema, with
\* as many rows as the source has rows holding that value, and leaves the
\* source table as it was.
C3_Step ==
    (last'.op = Ctfc /\ last'.raised = "none")
       => LET src == TableAt(tables, last'.name)
              ci == ColIndex(src.cols, last'.col)
              V == DistinctVals(src.rows, ci)
          IN  /\ Len(last'.ret) = Cardinality(V)
              /\ \A v \in V :
                    \E k \in DOMAIN last'.ret :
                       /\ last'.vals[k] = v
                       /\ ~HasTable(tables, last'.ret[k])
                       /\ HasTable(tables', last'.ret[k])
                       /\ TableCount(tables', last'.ret[k])
                             = Cardinality(RowsWith(src.rows, ci, v))
              /\ TableAt(tables', last'.name) = src

C3_DerivedCountsMatchSource == [][C3_Step]_vars

W_C3_TwoDerivedStripped ==
    /\ last.op = Ctfc
    /\ last.raised = "none"
    /\ Len(last.ret) >= 2
    /\ \E k \in DOMAIN last.ret : last.ret[k] # last.vals[k]

\* C4: every name create_tables_from_column computes is the value without
\* the first prefix of the list that the value starts with and whose removal
\* changes it (one prefix only), or the value itself when no prefix matches
\* or the list is empty; the tables it makes carry these names.
C4_NameStripsFirstMatchingPrefix ==
    last.op = Ctfc
       => /\ Len(last.tags) <= Len(last.vals)
          /\ \A k \in DOMAIN last.tags :
                last.tags[k] = ExpectedTag(last.vals[k], last.prefixes)
          /\ \A k \in DOMAIN last.made :
                last.made[k] = last.tags[k] /\ HasTable(tables, last.made[k])

W_C4_TwoPrefixesMatch ==
    /\ last.op = Ctfc
    /\ Len(last.prefixes) = 2
    /\ \E k \in DOMAIN last.tags :
          /\ Cardinality(Matching(last.vals[k], last.prefixes)) = 2
          /\ last.prefixes[1] # last.prefixes[2]
          /\ last.tags[k] # last.vals[k]

\* C8: when a derived name is the name of a table of the schema (the source,
\* a table made earlier) or of another value of the same call,
\* create_tables_from_column raises the engine's error and returns nothing;
\* no call changes a table that was there before it.
C8_Step ==
    (last'.op = Ctfc /\ last'.name # <<>>)
       => LET src == TableAt(tables, last'.name)
              ci == ColIndex(src.cols, last'.col)
              V == DistinctVals(src.rows, ci)
              collide ==
                 \E v \in V :
                    \/ HasTable(tables, ExpectedTag(v, last'.prefixes))
                    \/ \E w \in V \ { v } :
                          ExpectedTag(w, last'.prefixes)
                             = ExpectedTag(v, last'.prefixes)
          IN  /\ collide => (last'.raised = "SQLError" /\ last'.ret = <<>>)
              /\ Len(tables') >= Len(tables)
              /\ \A i \in DOMAIN tables : tables'[i] = tables[i]

C8_CollisionFailsAndKeepsTables == [][C8_Step]_vars

W_C8_CollisionWithinCall ==
    /\ last.op = Ctfc
    /\ last.raised = "SQLError"
    /\ last.tags # <<>>
    /\ \E j \in 1..(Len(last.tags) - 1) : last.tags[j] = last.tags[Len(last.tags)]

\* C10: when create_tables_from_column fails at its k-th distinct value, the
\* tables derived from the first k-1 values are in the schema with their
\* rows, no other table was made, the k-th name is invalid or taken, and
\* the caller gets the error and no list of names.
C10_Step ==
    (last'.op = Ctfc /\ last'.raised # "none" /\ last'.tags # <<>>)
       => LET k == Len(last'.tags)
              src == TableAt(tables, last'.name)
              ci == ColIndex(src.cols, last'.col)
              base == Len(tables)
          IN  /\ last'.ret = <<>>
              /\ exc' = (IF depth > 0 THEN last'.raised ELSE "none")
              /\ Len(last'.made) = k - 1
              /\ Len(tables') = base + k - 1
              /\ \A j \in 1..(k - 1) :
                    /\ tables'[base + j].name = last'.made[j]
                    /\ Len(tables'[base + j].rows)
                          = Cardinality(RowsWith(src.rows, ci, last'.vals[j]))
                    /\ Len(tables'[base + j].rows) > 0
                    /\ \A i \in DOMAIN tables'[base + j].rows :
                          tables'[base + j].rows[i][ci] = last'.vals[j]
              /\ \/ ~ValidIdent(last'.tags[k])
                 \/ HasTable(tables', last'.tags[k])

C10_FailureKeepsEarlierTables == [][C10_Step]_vars

W_C10_FailedAfterOneTable ==
    /\ last.op = Ctfc
    /\ last.raised = "SQLError"
    /\ Len(last.vals) >= 2
    /\ Len(last.made) >= 1
    /\ HasTable(tables, last.made[1])

\* C5 as stated: closing a session that is closed already, or that was never
\* opened, raises nothing and prints the diagnostic.
C5_CloseAgainIsDiagnosed ==
    (last.op = "__exit__" /\ last.cursorWas \in { "None", "closed" })
       => (last.raised = "none" /\ last.diag)

\* C5, amended: closing a session that is closed already, or that was never
\* opened, raises nothing; the diagnostic is printed when the cursor was
\* never initialised, and a second close of a closed session is silent.
C5_CloseAgainNeverRaises ==
    (last.op = "__exit__" /\ last.cursorWas \in { "None", "closed" })
       => /\ last.raised = "none"
          /\ last.diag <=> last.cursorWas = "None"

W_C5_ClosedTwice ==
    /\ last.op = "__exit__"
    /\ last.cursorWas = "closed"
    /\ last.raised = "none"
    /\ ~last.diag

\* C6: whenever a with-block is left, __exit__ has run, has closed the cursor
\* and then the connection, and the connection that block's __enter__ opened
\* and its cursor are no longer open.
C6_Step ==
    depth' < depth
       => /\ last'.op = "__exit__"
          /\ last'.excIn = exc
          /\ last'.closes = << "cursor", "conn" >>
          /\ scopes[depth] \notin openConns'
          /\ scopes[depth] \notin openCurs'

C6_ScopeExitClosesItsSession == [][C6_Step]_vars

\* C7: an error raised by an operation inside a with-block unwinds the block,
\* and __exit__ hands on the exception it was given, unchanged.
DbOps == { "create_table", Ctfc, "populate_table", "get_table_count" }

C7_EngineErrorPropagates ==
    /\ (last.op = "__exit__" /\ last.excIn # "none")
          => /\ last.out = last.excIn
             /\ depth > 0 => exc = last.excIn
    /\ (last.op \in DbOps /\ last.raised # "none" /\ depth > 0)
          => exc = last.raised

W_C7_SqlErrorLeftTheBlock ==
    /\ last.op = "__exit__"
    /\ last.excIn = "SQLError"
    /\ last.out = "SQLError"
    /\ last.cursorWas = "open"
    /\ depth = 0

\* C9: at most one connection and one cursor opened by the object are open,
\* and none is once every with-block has been left.
C9_OneConnectionAndCursor ==
    /\ Cardinality(openConns) <= 1
    /\ Cardinality(openCurs) <= 1
    /\ depth = 0 => (openConns = {} /\ openCurs = {})

====
